---- MODULE Spec2Model ----
(***************************************************************************)
(* Lowest-BIN aggregation and decay of hsb-economy-api.                    *)
(*                                                                         *)
(* Spec      : the sold-auction pipeline of sold_auction.py (__main__):    *)
(*             get_items, parse_items, get_sold_auction, save_items,       *)
(*             clean_items, run after run.                                 *)
(* SpecDecay : the same over more runs and fewer kinds of auction.         *)
(* SpecMerge : the same with merge_current called before save_items.       *)
(* SpecContract : the same fed a modifier tier of 0 and a negative price.  *)
(* SpecRuns  : two concurrent runs of auction_sold.py on data/auction.json *)
(*             through get_data, cache_data and save_data of               *)
(*             util/functions.py, at the grain of open, flock, read,       *)
(*             write and close.                                            *)
(* SpecPages : get_auction(0) of main.py, page after page, then send_data. *)
(*                                                                         *)
(* Prices are whole coins.  A modifier's implied price is                  *)
(* price / 2^(tier-1); the observations of the model are those for which   *)
(* that division is exact, so the integer quotient is the float Python     *)
(* computes.  Times are whole seconds.                                     *)
(***************************************************************************)
EXTENDS Integers, Sequences, FiniteSets, TLC

VARIABLES
    pc,       \* position of the running script in __main__
    items,    \* the in-memory record set (the dict `lbin` of __main__)
    disk,     \* the pickle file data/sold/auction: [exists, data]
    now,      \* the wall clock, datetime.now().timestamp()
    cycle,    \* number of the current run
    folded,   \* history: the observations folded so far in this pass
    pre,      \* history: the record set when this pass began (after parse_items)
    hist,     \* history: [op, before]: the last operation and the record set before it
    store,    \* data/auction.json and its flock state: [exists, text, data, by, ex, sh]
    runs,     \* the concurrent runs of auction_sold.py: [pc, local, got, seen] each
    base,     \* history: the record set persisted before the concurrent runs began
    cache,    \* the holder of the exclusive flock on cache/auction_sold.json
    ga,       \* get_auction of main.py: [pc, page, depth, fetched, totals, failed]
    main_items \* the module-level dict `items` of main.py

soldVars == <<pc, items, disk, now, cycle, folded, pre, hist>>
fileVars == <<store, runs, base, cache>>
pageVars == <<ga, main_items>>
vars == <<pc, items, disk, now, cycle, folded, pre, hist, store, runs, base,
          cache, ga, main_items>>

----------------------------------------------------------------------------
(* Program constants *)

week_seconds == 604800
Ceiling == 100000000
Increment == 1000
Percent == 5
ComboTier == 5
ComboFloor == 50000000

(* Bounds of the model *)

MaxCycles == 2
MaxDecayCycles == 3
MaxBatch == 2
MaxPages == 3

----------------------------------------------------------------------------
(* Inputs *)

KuudraIds == {"AURORA_CHESTPLATE"}
Ids == {"AURORA_CHESTPLATE", "HYPERION"}
AttrOrder == <<"A", "B">>     \* the modifier names, in sorted() order
AttrNames == {AttrOrder[i] : i \in 1..Len(AttrOrder)}
Prices == {96000, 100000, 200000000}
Empty == [x \in {} |-> 0]
Attributes ==
    { Empty,
      [a \in {"A"} |-> 1],
      [a \in {"A", "B"} |-> IF a = "A" THEN 2 ELSE 3],
      [a \in {"A", "B"} |-> IF a = "A" THEN 6 ELSE 2] }
\* time between two runs of the script
Deltas == {week_seconds - 1, week_seconds, week_seconds + 1}
\* seconds between the end of a sold auction (auction['timestamp'] / 1000) and
\* the run that fetches it
SaleLags == {1}
\* the clock at the first run
StartTime == week_seconds

Pow2(n) == 2 ^ n

\* a modifier's value: {'lbin': p, 'timestamp': t}, or the number p
Wrapped(p, t) == [form |-> "wrapped", lbin |-> p, timestamp |-> t]
Bare(p) == [form |-> "bare", lbin |-> p]

\* The BIN auctions of a response: identity, price, modifier tiers.
Observations ==
    { o \in [id : Ids, price : Prices, attrs : Attributes] :
        \A a \in DOMAIN o.attrs : o.price % Pow2(o.attrs[a] - 1) = 0 }

\* The auctions fed to the runs that merge: both identities, no or two modifiers.
MergeObservations ==
    { o \in Observations :
        /\ o.price <= Ceiling
        /\ o.attrs \in {Empty, [a \in {"A", "B"} |-> IF a = "A" THEN 2 ELSE 3]} }

\* The pickle data/active/auction, in the form the active-auction script
\* leaves: no timestamps, modifier prices as bare numbers.  The identity
\* without modifiers is listed at 500 or at 0.
Supplementals ==
    { [k \in Ids |->
        IF k \in KuudraIds
        THEN [lbin |-> 104000,
              attributes |-> [a \in {"A", "B"} |->
                                IF a = "A" THEN Bare(52000) ELSE Bare(26000)],
              attribute_combos |-> Empty]
        ELSE [lbin |-> p, attributes |-> Empty, attribute_combos |-> Empty]] :
      p \in {500, 0} }

\* Auctions of one identity, among them a modifier of tier 0 and a price
\* below zero.
ContractObservations ==
    { [id |-> "AURORA_CHESTPLATE", price |-> 96000, attrs |-> [a \in {"A"} |-> 1]],
      [id |-> "AURORA_CHESTPLATE", price |-> 96000, attrs |-> [a \in {"A"} |-> 0]],
      [id |-> "AURORA_CHESTPLATE", price |-> -96000, attrs |-> [a \in {"A"} |-> 1]],
      [id |-> "AURORA_CHESTPLATE", price |-> -96000, attrs |-> Empty] }

DecayObservations ==
    { o \in Observations :
        o.id = "AURORA_CHESTPLATE" /\ Cardinality(DOMAIN o.attrs) <= 1 }

----------------------------------------------------------------------------
(* Dictionaries *)

Put(f, k, v) == [x \in DOMAIN f \cup {k} |-> IF x = k THEN v ELSE f[x]]
Del(f, k) == [x \in DOMAIN f \ {k} |-> f[x]]
Get(f, k, d) == IF k \in DOMAIN f THEN f[k] ELSE d
Min(a, b) == IF a <= b THEN a ELSE b
Abs(a) == IF a < 0 THEN -a ELSE a

----------------------------------------------------------------------------
(* Helpers of auction_api.util.functions *)

\* |a - b| / a <= percentage / 100, in integers; a negative a makes the
\* quotient negative, which is within any percentage
is_within_percentage(a, b, percentage) ==
    IF a < 0 THEN TRUE ELSE Abs(a - b) <= (percentage * a) \div 100

\* whether the identity is a Kuudra armour piece
update_kuudra_piece(item_id) == item_id \in KuudraIds

----------------------------------------------------------------------------
(* get_sold_auction: the body of the loop over data["auctions"] *)

\* item_bin / (2 ** (tier - 1)); 2 ** -n is 1 / 2^n
AttributeCost(item_bin, tier) ==
    IF tier >= 1 THEN item_bin \div Pow2(tier - 1) ELSE item_bin * Pow2(1 - tier)

SortedKeys(S) == SelectSeq(AttrOrder, LAMBDA a : a \in S)

RECURSIVE Join(_)
Join(s) ==
    IF s = <<>> THEN ""
    ELSE IF Len(s) = 1 THEN s[1]
    ELSE s[1] \o " " \o Join(Tail(s))

ComboKey(attributes) == Join(SortedKeys(DOMAIN attributes))

\* variant: the tolerance branch stores the candidate instead of keeping the price
FoldAttributeOverwrite(item_attributes, attribute, item_bin, tier, t) ==
    LET attribute_cost == AttributeCost(item_bin, tier)
        current_cost == IF attribute \in DOMAIN item_attributes
                        THEN item_attributes[attribute].lbin
                        ELSE attribute_cost
    IN  IF attribute_cost <= current_cost
        THEN Wrapped(attribute_cost, t)
        ELSE IF is_within_percentage(current_cost, attribute_cost, Percent)
        THEN Wrapped(attribute_cost, t)
        ELSE item_attributes[attribute]

\* variant: the tolerance branch writes the time under the key 'lbin'
FoldAttributeWrongKey(item_attributes, attribute, item_bin, tier, t) ==
    LET attribute_cost == AttributeCost(item_bin, tier)
        current_cost == IF attribute \in DOMAIN item_attributes
                        THEN item_attributes[attribute].lbin
                        ELSE attribute_cost
    IN  IF attribute_cost <= current_cost
        THEN Wrapped(attribute_cost, t)
        ELSE IF is_within_percentage(current_cost, attribute_cost, Percent)
        THEN [item_attributes[attribute] EXCEPT !.lbin = t]
        ELSE item_attributes[attribute]

FoldAttribute(item_attributes, attribute, item_bin, tier, t) ==
    LET attribute_cost == AttributeCost(item_bin, tier)
        current_cost == IF attribute \in DOMAIN item_attributes
                        THEN item_attributes[attribute].lbin
                        ELSE attribute_cost
    IN  IF attribute_cost <= current_cost
        THEN Wrapped(attribute_cost, t)
        ELSE IF is_within_percentage(current_cost, attribute_cost, Percent)
        THEN [item_attributes[attribute] EXCEPT !.timestamp = t]
        ELSE item_attributes[attribute]

\* variant: check_combo is never cleared by a tier above 5
FoldCombosAnyTier(current_combos, attributes, item_bin, is_kuudra_piece) ==
    LET attribute_keys == DOMAIN attributes
        attribute_combo == ComboKey(attributes)
    IN  IF ~is_kuudra_piece THEN Empty
        ELSE IF Cardinality(attribute_keys) > 1
        THEN Put(current_combos, attribute_combo,
                 Min(item_bin, Get(current_combos, attribute_combo, item_bin)))
        ELSE current_combos

FoldCombos(current_combos, attributes, item_bin, is_kuudra_piece) ==
    LET attribute_keys == DOMAIN attributes
        check_combo == \A a \in attribute_keys : ~(attributes[a] > ComboTier)
        attribute_combo == ComboKey(attributes)
    IN  IF ~is_kuudra_piece THEN Empty
        ELSE IF check_combo /\ Cardinality(attribute_keys) > 1
        THEN Put(current_combos, attribute_combo,
                 Min(item_bin, Get(current_combos, attribute_combo, item_bin)))
        ELSE current_combos

\* variant: the latest price replaces the stored one
ItemLbinLatest(its, item_id, item_bin) == item_bin

\* variant: a record already held keeps its (inflated) price
ItemLbinStored(its, item_id, item_bin) ==
    IF item_id \notin DOMAIN its THEN item_bin ELSE its[item_id].lbin

ItemLbin(its, item_id, item_bin) ==
    IF item_id \notin DOMAIN its THEN item_bin ELSE Min(item_bin, its[item_id].lbin)

Fold(its, o, sold_at, t) ==
    LET item_id == o.id
        known == item_id \in DOMAIN its
        current == its[item_id]
        item_bin == o.price
        timestamp == IF ~known
                        \/ is_within_percentage(item_bin, current.lbin, Percent)
                        \/ item_bin < current.lbin
                     THEN sold_at ELSE current.timestamp
        lbin == ItemLbin(its, item_id, item_bin)
        item_attributes == IF known THEN current.attributes ELSE Empty
        attribute_keys == DOMAIN o.attrs
        attributes ==
            [a \in DOMAIN item_attributes \cup attribute_keys |->
                IF a \in attribute_keys
                THEN FoldAttribute(item_attributes, a, item_bin, o.attrs[a], t)
                ELSE item_attributes[a]]
        is_kuudra_piece == attribute_keys # {} /\ update_kuudra_piece(item_id)
        combos == FoldCombos(IF known THEN current.attribute_combos ELSE Empty,
                             o.attrs, item_bin, is_kuudra_piece)
    IN  Put(its, item_id,
            [lbin |-> lbin, timestamp |-> timestamp,
             attributes |-> attributes, attribute_combos |-> combos])

\* item_attributes[attribute]['lbin'] raises on a value that is a bare number
FoldRaises(its, o) ==
    /\ o.id \in DOMAIN its
    /\ \E a \in DOMAIN o.attrs \cap DOMAIN its[o.id].attributes :
            its[o.id].attributes[a].form = "bare"

----------------------------------------------------------------------------
(* parse_items, clean_items *)

\* variant: a record exactly a week old is stale too
StaleAtWeek(timestamp, t) == t - timestamp >= week_seconds

Stale(timestamp, t) == t - timestamp > week_seconds

ParseAttributes(attributes, t) ==
    [a \in {b \in DOMAIN attributes : ~Stale(attributes[b].timestamp, t)} |->
        [attributes[a] EXCEPT !.lbin = @ + Increment]]

\* variant: a zero lbin is raised too
ParseItemAlways(item, t) ==
    [item EXCEPT !.lbin = @ + Increment,
                 !.attributes = ParseAttributes(@, t)]

ParseItem(item, t) ==
    [item EXCEPT !.lbin = IF @ # 0 THEN @ + Increment ELSE @,
                 !.attributes = ParseAttributes(@, t)]

\* variant: no ceiling
SkippedNever(item) == FALSE

Skipped(item) == item.lbin > Ceiling

parse_items(its, t) ==
    [k \in {j \in DOMAIN its : Skipped(its[j]) \/ ~Stale(its[j].timestamp, t)} |->
        IF Skipped(its[k]) THEN its[k] ELSE ParseItem(its[k], t)]

\* attributes[attribute].get raises on a value that is a bare number
ParseRaises(its) ==
    \E k \in DOMAIN its :
        /\ ~Skipped(its[k])
        /\ \E a \in DOMAIN its[k].attributes : its[k].attributes[a].form = "bare"

clean_items(its) ==
    [k \in DOMAIN its |->
        [its[k] EXCEPT !.attributes = [a \in DOMAIN @ |-> Bare(@[a].lbin)]]]

----------------------------------------------------------------------------
(* merge_current *)

\* variant: the record of data/active/auction replaces a record already held
merge_currentOverride(its, data, t) ==
    [k \in DOMAIN its \cup DOMAIN data |->
        IF k \in DOMAIN data
        THEN [lbin |-> data[k].lbin,
              timestamp |-> t,
              attributes |-> [a \in DOMAIN data[k].attributes |->
                                Wrapped(data[k].attributes[a].lbin, t)],
              attribute_combos |-> data[k].attribute_combos]
        ELSE its[k]]

\* variant: the modifier prices are copied as they are, bare
merge_currentBare(its, data, t) ==
    [k \in DOMAIN its \cup DOMAIN data |->
        IF k \in DOMAIN its
        THEN its[k]
        ELSE [lbin |-> data[k].lbin,
              timestamp |-> t,
              attributes |-> data[k].attributes,
              attribute_combos |-> data[k].attribute_combos]]

merge_current(its, data, t) ==
    [k \in DOMAIN its \cup DOMAIN data |->
        IF k \in DOMAIN its
        THEN its[k]
        ELSE [lbin |-> data[k].lbin,
              timestamp |-> t,
              attributes |-> [a \in DOMAIN data[k].attributes |->
                                Wrapped(data[k].attributes[a].lbin, t)],
              attribute_combos |-> data[k].attribute_combos]]

----------------------------------------------------------------------------
(* __main__ of sold_auction.py *)

NoHist == [op |-> "none", before |-> Empty]
Procs == {"run1", "run2"}
NoLock == "nobody"
NoFile == [exists |-> FALSE, text |-> "empty", data |-> Empty, by |-> NoLock,
           ex |-> NoLock, sh |-> {}]
IdleRun == [pc |-> "idle", local |-> Empty, got |-> "none", seen |-> <<>>,
            exc |-> FALSE]
IdlePages == [pc |-> "idle", page |-> 0, depth |-> 0, fetched |-> <<>>,
              totals |-> <<>>, failed |-> FALSE]

Init ==
    /\ pc = "get_items"
    /\ items = Empty
    /\ disk = [exists |-> FALSE, data |-> Empty]
    /\ now = StartTime
    /\ cycle = 1
    /\ folded = <<>>
    /\ pre = Empty
    /\ hist = NoHist
    /\ store = NoFile
    /\ runs = [p \in Procs |-> IdleRun]
    /\ base = Empty
    /\ cache = NoLock
    /\ ga = IdlePages
    /\ main_items = Empty

\* get_items: the pickle file, created empty when absent
GetItems ==
    /\ pc = "get_items"
    /\ items' = disk.data
    /\ disk' = [disk EXCEPT !.exists = TRUE]
    /\ pc' = "parse_items"
    /\ hist' = [op |-> "get_items", before |-> Empty]
    /\ UNCHANGED <<now, cycle, folded, pre>>
    /\ UNCHANGED <<fileVars, pageVars>>

ParseItems ==
    /\ pc = "parse_items"
    /\ IF ParseRaises(items)
       THEN /\ pc' = "crashed"
            /\ items' = Empty
            /\ pre' = Empty
            /\ hist' = [op |-> "parse_raised", before |-> Empty]
       ELSE /\ items' = parse_items(items, now)
            /\ pre' = items'
            /\ pc' = "get_sold_auction"
            /\ hist' = [op |-> "parse_items", before |-> items]
    /\ folded' = <<>>
    /\ UNCHANGED <<disk, now, cycle>>
    /\ UNCHANGED <<fileVars, pageVars>>

\* rq.get answers 200: the loop over data["auctions"] begins
FetchOk ==
    /\ pc = "get_sold_auction"
    /\ pc' = "fold"
    /\ hist' = [op |-> "fetch", before |-> Empty]
    /\ UNCHANGED <<items, disk, now, cycle, folded, pre>>
    /\ UNCHANGED <<fileVars, pageVars>>

\* rq.get answers another status: get_sold_auction returns
FetchFailed ==
    /\ pc = "get_sold_auction"
    /\ pc' = "save_items"
    /\ hist' = [op |-> "fetch_failed", before |-> Empty]
    /\ UNCHANGED <<items, disk, now, cycle, folded, pre>>
    /\ UNCHANGED <<fileVars, pageVars>>

\* one BIN auction of the response
FoldAuction(auctions) ==
    /\ pc = "fold"
    /\ Len(folded) < MaxBatch
    /\ \E o \in auctions, lag \in SaleLags :
        IF FoldRaises(items, o)
        THEN /\ pc' = "crashed"
             /\ items' = Empty
             /\ folded' = <<>>
             /\ pre' = Empty
             /\ hist' = [op |-> "fold_raised", before |-> Empty]
        ELSE /\ pc' = "fold"
             /\ items' = Fold(items, o, now - lag, now)
             /\ folded' = Append(folded, o)
             /\ hist' = [op |-> "fold", before |-> items]
             /\ UNCHANGED pre
    /\ UNCHANGED <<disk, now, cycle>>
    /\ UNCHANGED <<fileVars, pageVars>>

\* an auction that is not a BIN: continue
SkipBid ==
    /\ pc = "fold"
    /\ hist.op # "bid"
    /\ hist' = [op |-> "bid", before |-> Empty]
    /\ UNCHANGED <<pc, items, disk, now, cycle, folded, pre>>
    /\ UNCHANGED <<fileVars, pageVars>>

\* an auction whose descriptor lacks the fields read: the KeyError (or the
\* StopIteration of next(iter(runes.items()))) leaves get_sold_auction and __main__
FoldMalformed ==
    /\ pc = "fold"
    /\ pc' = "crashed"
    /\ items' = Empty
    /\ folded' = <<>>
    /\ pre' = Empty
    /\ hist' = [op |-> "malformed", before |-> Empty]
    /\ UNCHANGED <<disk, now, cycle>>
    /\ UNCHANGED <<fileVars, pageVars>>

\* the response's auctions are exhausted
FoldEnd ==
    /\ pc = "fold"
    /\ pc' = "save_items"
    /\ hist' = [op |-> "fold_end", before |-> Empty]
    /\ UNCHANGED <<items, disk, now, cycle, folded, pre>>
    /\ UNCHANGED <<fileVars, pageVars>>

\* variant: the record set is flattened before it is pickled
SaveItemsCleaned ==
    /\ pc = "save_items"
    /\ disk' = [exists |-> TRUE, data |-> clean_items(items)]
    /\ pc' = "clean_items"
    /\ hist' = [op |-> "save_items", before |-> Empty]
    /\ folded' = <<>>
    /\ pre' = Empty
    /\ UNCHANGED <<items, now, cycle>>
    /\ UNCHANGED <<fileVars, pageVars>>

SaveItems ==
    /\ pc = "save_items"
    /\ disk' = [exists |-> TRUE, data |-> items]
    /\ pc' = "clean_items"
    /\ hist' = [op |-> "save_items", before |-> Empty]
    /\ folded' = <<>>
    /\ pre' = Empty
    /\ UNCHANGED <<items, now, cycle>>
    /\ UNCHANGED <<fileVars, pageVars>>

CleanItems ==
    /\ pc = "clean_items"
    /\ items' = clean_items(items)
    /\ pc' = "done"
    /\ hist' = [op |-> "clean_items", before |-> items]
    /\ UNCHANGED <<disk, now, cycle, folded, pre>>
    /\ UNCHANGED <<fileVars, pageVars>>

\* the next run of the script, some time later, in a fresh process
NextRun(maxCycles) ==
    /\ pc \in {"done", "crashed"}
    /\ cycle < maxCycles
    /\ cycle' = cycle + 1
    /\ \E d \in Deltas : now' = now + d
    /\ pc' = "get_items"
    /\ items' = Empty
    /\ folded' = <<>>
    /\ pre' = Empty
    /\ hist' = NoHist
    /\ UNCHANGED disk
    /\ UNCHANGED <<fileVars, pageVars>>

Next ==
    \/ GetItems
    \/ ParseItems
    \/ FetchOk
    \/ FetchFailed
    \/ FoldAuction(Observations)
    \/ SkipBid
    \/ FoldMalformed
    \/ FoldEnd
    \/ SaveItems
    \/ CleanItems
    \/ NextRun(MaxCycles)

Spec == Init /\ [][Next]_vars

\* merge_current, as called between get_sold_auction and save_items
MergeCurrent ==
    /\ pc = "save_items"
    /\ hist.op # "merge_current"
    /\ \E data \in Supplementals :
         items' = merge_current(items, data, now)
    /\ hist' = [op |-> "merge_current", before |-> items]
    /\ UNCHANGED <<pc, disk, now, cycle, folded, pre>>
    /\ UNCHANGED <<fileVars, pageVars>>

\* The script with the call of merge_current in place.
NextMerge ==
    \/ GetItems
    \/ ParseItems
    \/ FetchOk
    \/ FetchFailed
    \/ FoldAuction(MergeObservations)
    \/ SkipBid
    \/ FoldMalformed
    \/ FoldEnd
    \/ MergeCurrent
    \/ SaveItems
    \/ CleanItems
    \/ NextRun(MaxCycles)

SpecMerge == Init /\ [][NextMerge]_vars

\* The same script over more runs, fed the auctions of one identity with at
\* most one modifier: the runs the decay pass needs to meet every age.
NextDecay ==
    \/ GetItems
    \/ ParseItems
    \/ FetchOk
    \/ FetchFailed
    \/ FoldAuction(DecayObservations)
    \/ SkipBid
    \/ FoldMalformed
    \/ FoldEnd
    \/ SaveItems
    \/ CleanItems
    \/ NextRun(MaxDecayCycles)

SpecDecay == Init /\ [][NextDecay]_vars

\* The same script fed auctions with a modifier tier or a price outside the
\* feed's contract.
NextContract ==
    \/ GetItems
    \/ ParseItems
    \/ FetchOk
    \/ FetchFailed
    \/ FoldAuction(ContractObservations)
    \/ SkipBid
    \/ FoldMalformed
    \/ FoldEnd
    \/ SaveItems
    \/ CleanItems
    \/ NextRun(MaxCycles)

SpecContract == Init /\ [][NextContract]_vars

----------------------------------------------------------------------------
(* auction_sold.py on util/functions.py: get_data, save_data *)

\* The sold auctions a run fetches.
RunObservations == { o \in Observations : o.attrs = Empty /\ o.price = 96000 }

\* util.items, after sections 4.3 to 4.5 of the specification
increment_lbin(auction, t) == parse_items(auction, t)
update_lbin(new_auction, o, t) == Fold(new_auction, o, t, t)
merge_auctions(auction, new_auction, t) ==
    [k \in DOMAIN auction \cup DOMAIN new_auction |->
        IF k \in DOMAIN auction
        THEN auction[k]
        ELSE [new_auction[k] EXCEPT !.timestamp = t]]

\* one whole run of __main__ on the record set b, alone
RunCycle(b, o, t) ==
    merge_auctions(increment_lbin(b, t), update_lbin(Empty, o, t), t)

Whole(d) == [exists |-> TRUE, text |-> "whole", data |-> d, by |-> NoLock,
             ex |-> NoLock, sh |-> {}]

InitRuns ==
    /\ pc = "idle"
    /\ items = Empty
    /\ disk = [exists |-> FALSE, data |-> Empty]
    /\ now = StartTime
    /\ cycle = 1
    /\ folded = <<>>
    /\ pre = Empty
    /\ hist = NoHist
    /\ \E b \in {Empty} \cup {RunCycle(Empty, o, StartTime) : o \in RunObservations} :
        /\ base = b
        /\ store = IF b = Empty THEN NoFile ELSE Whole(b)
    /\ runs = [p \in Procs |-> [IdleRun EXCEPT !.pc = "get_data"]]
    /\ cache = NoLock
    /\ ga = IdlePages
    /\ main_items = Empty

\* get_data: os.path.exists(path)
GetDataExists(p) ==
    /\ runs[p].pc = "get_data"
    /\ runs' = IF store.exists
               THEN [runs EXCEPT ![p].pc = "gd_open"]
               ELSE [runs EXCEPT ![p].pc = "increment_lbin",
                                 ![p].local = Empty,
                                 ![p].got = "absent"]
    /\ UNCHANGED <<store, base, cache, soldVars, pageVars>>

\* get_data: open(path, "r")
GetDataOpen(p) ==
    /\ runs[p].pc = "gd_open"
    /\ runs' = [runs EXCEPT ![p].pc = "gd_flock"]
    /\ UNCHANGED <<store, base, cache, soldVars, pageVars>>

\* get_data: fcntl.flock(file, LOCK_SH) waits for the exclusive holder
GetDataLock(p) ==
    /\ runs[p].pc = "gd_flock"
    /\ store.ex = NoLock
    /\ store' = [store EXCEPT !.sh = @ \cup {p}]
    /\ runs' = [runs EXCEPT ![p].pc = "gd_load"]
    /\ UNCHANGED <<base, cache, soldVars, pageVars>>

\* variant: the JSONDecodeError leaves get_data
GetDataLoadRaises(p) ==
    /\ runs[p].pc = "gd_load"
    /\ runs' = [runs EXCEPT ![p].pc = IF store.text = "whole"
                                      THEN "gd_unlock" ELSE "gd_raised",
                            ![p].got = store.text,
                            ![p].local = IF store.text = "whole"
                                         THEN store.data ELSE Empty]
    /\ UNCHANGED <<store, base, cache, soldVars, pageVars>>

\* get_data: json.load(file); a JSONDecodeError makes get_data return {}
GetDataLoad(p) ==
    /\ runs[p].pc = "gd_load"
    /\ runs' = [runs EXCEPT ![p].pc = "gd_unlock",
                            ![p].got = store.text,
                            ![p].local = IF store.text = "whole"
                                         THEN store.data ELSE Empty]
    /\ UNCHANGED <<store, base, cache, soldVars, pageVars>>

\* get_data: finally fcntl.flock(file, LOCK_UN), close, return
GetDataUnlock(p) ==
    /\ runs[p].pc = "gd_unlock"
    /\ store' = [store EXCEPT !.sh = @ \ {p}]
    /\ runs' = [runs EXCEPT ![p].pc = "increment_lbin"]
    /\ UNCHANGED <<base, cache, soldVars, pageVars>>

IncrementLbin(p) ==
    /\ runs[p].pc = "increment_lbin"
    /\ runs' = [runs EXCEPT ![p].pc = "fetch_data",
                            ![p].local = increment_lbin(@, now)]
    /\ UNCHANGED <<store, base, cache, soldVars, pageVars>>

\* fetch_data: session.get answers 200 with the sold auctions
FetchData(p) ==
    /\ runs[p].pc = "fetch_data"
    /\ \E o \in RunObservations :
        runs' = [runs EXCEPT ![p].pc = "cache_data", ![p].seen = <<o>>]
    /\ UNCHANGED <<store, base, cache, soldVars, pageVars>>

\* cache_data: open(path, "w"), fcntl.flock(file, LOCK_EX)
CacheDataLock(p) ==
    /\ runs[p].pc = "cache_data"
    /\ cache = NoLock
    /\ cache' = p
    /\ runs' = [runs EXCEPT ![p].pc = "cd_dump"]
    /\ UNCHANGED <<store, base, soldVars, pageVars>>

\* cache_data: json.dump, which may raise (an OSError of the write)
CacheDataDump(p) ==
    /\ runs[p].pc = "cd_dump"
    /\ \E raised \in BOOLEAN :
        runs' = [runs EXCEPT ![p].pc = "cd_unlock", ![p].exc = raised]
    /\ UNCHANGED <<store, base, cache, soldVars, pageVars>>

\* cache_data: finally fcntl.flock(file, LOCK_UN); an exception goes on
\* through fetch_data, get_sold_auction and __main__
CacheDataUnlock(p) ==
    /\ runs[p].pc = "cd_unlock"
    /\ cache' = NoLock
    /\ runs' = [runs EXCEPT ![p].pc = IF runs[p].exc THEN "raised" ELSE "merge_auctions"]
    /\ UNCHANGED <<store, base, soldVars, pageVars>>

\* get_sold_auction: update_lbin folds the auctions into new_auction,
\* merge_auctions merges it
MergeAuctions(p) ==
    /\ runs[p].pc = "merge_auctions"
    /\ runs' = [runs EXCEPT ![p].pc = "save_data",
                            ![p].local = merge_auctions(@, update_lbin(Empty, runs[p].seen[1], now), now)]
    /\ UNCHANGED <<store, base, cache, soldVars, pageVars>>

\* fetch_data fails: exit(1)
FetchExit(p) ==
    /\ runs[p].pc = "fetch_data"
    /\ runs' = [runs EXCEPT ![p].pc = "exited"]
    /\ UNCHANGED <<store, base, cache, soldVars, pageVars>>

\* save_data: open(path, "w") creates or truncates the file
SaveDataOpen(p) ==
    /\ runs[p].pc = "save_data"
    /\ store' = [store EXCEPT !.exists = TRUE, !.text = "empty",
                              !.data = Empty, !.by = NoLock]
    /\ runs' = [runs EXCEPT ![p].pc = "sd_flock"]
    /\ UNCHANGED <<base, cache, soldVars, pageVars>>

\* save_data: fcntl.flock(file, LOCK_EX) waits for every other holder
SaveDataLock(p) ==
    /\ runs[p].pc = "sd_flock"
    /\ store.ex = NoLock
    /\ store.sh \ {p} = {}
    /\ store' = [store EXCEPT !.ex = p]
    /\ runs' = [runs EXCEPT ![p].pc = "sd_dump"]
    /\ UNCHANGED <<base, cache, soldVars, pageVars>>

\* save_data: json.dump writes into the file object's buffer, which reaches
\* the file only when it fills; the write may raise
SaveDataDump(p) ==
    /\ runs[p].pc = "sd_dump"
    /\ \E filled \in BOOLEAN, raised \in BOOLEAN :
        /\ store' = IF filled
                    THEN [store EXCEPT !.text = "part", !.data = Empty, !.by = p]
                    ELSE store
        /\ runs' = [runs EXCEPT ![p].pc = "sd_unlock", ![p].exc = raised]
    /\ UNCHANGED <<base, cache, soldVars, pageVars>>

\* variant: the unlock follows json.dump without a `finally`
SaveDataUnlockNoFinally(p) ==
    /\ runs[p].pc = "sd_unlock"
    /\ store' = IF runs[p].exc THEN store ELSE [store EXCEPT !.ex = NoLock]
    /\ runs' = [runs EXCEPT ![p].pc = "sd_close"]
    /\ UNCHANGED <<base, cache, soldVars, pageVars>>

\* save_data: finally fcntl.flock(file, LOCK_UN)
SaveDataUnlock(p) ==
    /\ runs[p].pc = "sd_unlock"
    /\ store' = [store EXCEPT !.ex = NoLock]
    /\ runs' = [runs EXCEPT ![p].pc = "sd_close"]
    /\ UNCHANGED <<base, cache, soldVars, pageVars>>

\* save_data: leaving `with` closes the file and writes the rest of the
\* buffer; over bytes another writer left since this one's open the result is
\* this run's text, or this run's text followed by the other's tail; after
\* an exception of json.dump what was written is a part of the text, and the
\* exception goes on through get_sold_auction and __main__
SaveDataClose(p) ==
    /\ runs[p].pc = "sd_close"
    /\ \E text \in {"whole", "mixed", "part"} :
        /\ text = "mixed" => ~runs[p].exc /\ store.text # "empty" /\ store.by # p
        /\ text = "whole" => ~runs[p].exc
        /\ text = "part" => runs[p].exc
        /\ store' = [store EXCEPT !.text = text,
                                  !.data = IF text = "whole" THEN runs[p].local ELSE Empty,
                                  !.by = NoLock]
    /\ runs' = [runs EXCEPT ![p].pc = IF runs[p].exc THEN "raised" ELSE "done"]
    /\ UNCHANGED <<base, cache, soldVars, pageVars>>

NextRuns ==
    \E p \in Procs :
        \/ GetDataExists(p)
        \/ GetDataOpen(p)
        \/ GetDataLock(p)
        \/ GetDataLoad(p)
        \/ GetDataUnlock(p)
        \/ IncrementLbin(p)
        \/ FetchData(p)
        \/ FetchExit(p)
        \/ CacheDataLock(p)
        \/ CacheDataDump(p)
        \/ CacheDataUnlock(p)
        \/ MergeAuctions(p)
        \/ SaveDataOpen(p)
        \/ SaveDataLock(p)
        \/ SaveDataDump(p)
        \/ SaveDataUnlock(p)
        \/ SaveDataClose(p)

SpecRuns == InitRuns /\ [][NextRuns]_vars

----------------------------------------------------------------------------
(* main.py: get_auction(0), send_data *)

\* The BIN auctions of a page of the active-auction feed, by starting bid.
ActiveObservations ==
    { o \in Observations :
        /\ o.price \in {96000, 200000000}
        /\ o.attrs \in {Empty, [a \in {"A", "B"} |-> IF a = "A" THEN 2 ELSE 3]} }

\* a page's auctions: none that is a BIN, or one
PageBatches == {<<>>} \cup {<<o>> : o \in ActiveObservations}

\* data['totalPages'] of a response
PageCounts == 1..MaxPages

RECURSIVE JoinQuoted(_)
JoinQuoted(s) ==
    IF s = <<>> THEN ""
    ELSE IF Len(s) = 1 THEN "'" \o s[1] \o "'"
    ELSE "'" \o s[1] \o "', " \o JoinQuoted(Tail(s))

\* str(attribute_keys)
ListStr(attributes) == "[" \o JoinQuoted(SortedKeys(DOMAIN attributes)) \o "]"

\* the body of the loop over data["auctions"]; modifier prices are bare
\* numbers and a record has no timestamp
FoldActive(its, o) ==
    LET item_id == o.id
        known == item_id \in DOMAIN its
        current == its[item_id]
        item_bin == o.price
        lbin == IF ~known THEN item_bin ELSE Min(item_bin, current.lbin)
        attribute_keys == DOMAIN o.attrs
        held == IF known THEN current.attributes ELSE Empty
        attributes ==
            IF attribute_keys = {} THEN Empty
            ELSE [a \in DOMAIN held \cup attribute_keys |->
                    IF a \in attribute_keys
                    THEN Bare(Min(AttributeCost(item_bin, o.attrs[a]),
                                  IF a \in DOMAIN held THEN held[a].lbin
                                  ELSE AttributeCost(item_bin, o.attrs[a])))
                    ELSE held[a]]
        attribute_combo == ListStr(o.attrs)
        held_combos == IF known THEN current.attribute_combos ELSE Empty
        combos ==
            IF item_bin > ComboFloor /\ Cardinality(attribute_keys) > 1
            THEN Put(held_combos, attribute_combo,
                     Min(item_bin, Get(held_combos, attribute_combo, item_bin)))
            ELSE Empty
    IN  Put(its, item_id,
            [lbin |-> lbin, attributes |-> attributes, attribute_combos |-> combos])

RECURSIVE FoldPage(_, _)
FoldPage(its, auctions) ==
    IF auctions = <<>> THEN its
    ELSE FoldPage(FoldActive(its, Head(auctions)), Tail(auctions))

\* variant: one more page is asked for after the last
MorePagesInclusive(page, totalPages) == page + 1 <= totalPages

MorePages(page, totalPages) == page + 1 < totalPages

InitPages ==
    /\ pc = "idle"
    /\ items = Empty
    /\ disk = [exists |-> FALSE, data |-> Empty]
    /\ now = StartTime
    /\ cycle = 1
    /\ folded = <<>>
    /\ pre = Empty
    /\ hist = NoHist
    /\ store = NoFile
    /\ runs = [p \in Procs |-> IdleRun]
    /\ base = Empty
    /\ cache = NoLock
    /\ ga = [IdlePages EXCEPT !.pc = "get_auction"]
    /\ main_items = Empty

\* get_auction(page): the response is not a 200; the call returns, and so
\* does every call below it
GetAuctionFailed ==
    /\ ga.pc = "get_auction"
    /\ ga' = [ga EXCEPT !.pc = "send_data",
                        !.depth = @ + 1,
                        !.fetched = Append(@, ga.page),
                        !.failed = TRUE]
    /\ UNCHANGED <<main_items, soldVars, fileVars>>

\* get_auction(page): a 200; the page's auctions are folded into items and
\* the call either calls get_auction(page + 1) or returns
GetAuctionPage ==
    /\ ga.pc = "get_auction"
    /\ \E totalPages \in PageCounts, auctions \in PageBatches :
        /\ main_items' = FoldPage(main_items, auctions)
        /\ ga' = [ga EXCEPT !.pc = IF MorePages(ga.page, totalPages)
                                   THEN "get_auction" ELSE "send_data",
                            !.page = IF MorePages(ga.page, totalPages)
                                     THEN @ + 1 ELSE @,
                            !.depth = @ + 1,
                            !.fetched = Append(@, ga.page),
                            !.totals = Append(@, totalPages)]
    /\ UNCHANGED <<soldVars, fileVars>>

\* __main__: send_data({'items': items})
SendData ==
    /\ ga.pc = "send_data"
    /\ ga' = [ga EXCEPT !.pc = "done"]
    /\ UNCHANGED <<main_items, soldVars, fileVars>>

NextPages ==
    \/ GetAuctionFailed
    \/ GetAuctionPage
    \/ SendData

SpecPages == InitPages /\ [][NextPages]_vars /\ WF_vars(NextPages)

----------------------------------------------------------------------------
(* Properties *)

LastObs == folded[Len(folded)]
JustFolded == pc = "fold" /\ hist.op = "fold"
JustParsed == pc = "get_sold_auction" /\ hist.op = "parse_items"

SetMin(S) == CHOOSE x \in S : \A y \in S : x <= y

BatchPrices(id) ==
    {folded[i].price : i \in {j \in 1..Len(folded) : folded[j].id = id}}

LbinCandidates(id) ==
    BatchPrices(id) \cup (IF id \in DOMAIN pre THEN {pre[id].lbin} ELSE {})

\* C1: while a pass folds, no identity's lbin increases from one folded
\* observation to the next, and after any batch every identity's lbin is the
\* minimum of its pre-pass lbin and the batch's prices for it, which no
\* reordering of the batch changes.
C1_LbinMinOfBatch ==
    /\ JustFolded =>
         \A id \in DOMAIN hist.before :
            id \in DOMAIN items /\ items[id].lbin <= hist.before[id].lbin
    /\ (pc = "fold" \/ hist.op = "fold_end") =>
         \A id \in Ids :
            IF LbinCandidates(id) = {}
            THEN id \notin DOMAIN items
            ELSE id \in DOMAIN items /\ items[id].lbin = SetMin(LbinCandidates(id))

C1_Witness ==
    /\ JustFolded
    /\ Len(folded) = 2
    /\ folded[1].id = folded[2].id
    /\ folded[1].price < folded[2].price
    /\ folded[1].id \in DOMAIN pre
    /\ pre[folded[1].id].lbin > folded[1].price

PriceView(its) ==
    [k \in DOMAIN its |->
        [lbin |-> its[k].lbin,
         attributes |-> [a \in DOMAIN its[k].attributes |-> its[k].attributes[a].lbin],
         attribute_combos |-> its[k].attribute_combos]]

Refolded ==
    /\ JustFolded
    /\ Len(folded) >= 2
    /\ folded[Len(folded)] = folded[Len(folded) - 1]

\* C2: folding the same observation a second time in a row leaves every lbin,
\* modifier price and combo price as the first fold left them.
C2_RefoldKeepsPrices ==
    Refolded => PriceView(items) = PriceView(hist.before)

C2_Witness ==
    /\ Refolded
    /\ Cardinality(DOMAIN LastObs.attrs) = 2
    /\ items[LastObs.id].attribute_combos # Empty
    /\ LastObs.id \in DOMAIN pre

Candidate(o, a) == o.price \div (2 ^ (o.attrs[a] - 1))
HadModifier(o, a) ==
    o.id \in DOMAIN hist.before /\ a \in DOMAIN hist.before[o.id].attributes
OldModifier(o, a) == hist.before[o.id].attributes[a]
NewModifier(o, a) == items[o.id].attributes[a]
WithinTolerance(c, e) == Abs(c - e) <= (5 * e) \div 100

\* C3: for each modifier of a folded observation, with candidate c and stored
\* price e: c <= e stores c and the time of the fold; otherwise, c within 5% of
\* e keeps e and stores the time of the fold; otherwise price and time stay.
C3_ToleranceRule ==
    JustFolded =>
        \A a \in DOMAIN LastObs.attrs :
            LET c == Candidate(LastObs, a)
                e == IF HadModifier(LastObs, a) THEN OldModifier(LastObs, a).lbin ELSE c
                m == NewModifier(LastObs, a)
            IN  IF c <= e THEN m.lbin = c /\ m.timestamp = now
                ELSE IF WithinTolerance(c, e) THEN m.lbin = e /\ m.timestamp = now
                ELSE m = OldModifier(LastObs, a)

C3_Witness ==
    /\ JustFolded
    /\ \E a \in DOMAIN LastObs.attrs :
        /\ HadModifier(LastObs, a)
        /\ Candidate(LastObs, a) > OldModifier(LastObs, a).lbin
        /\ WithinTolerance(Candidate(LastObs, a), OldModifier(LastObs, a).lbin)
        /\ OldModifier(LastObs, a).timestamp < now
        /\ NewModifier(LastObs, a).lbin = OldModifier(LastObs, a).lbin
        /\ NewModifier(LastObs, a).timestamp = now

Qualifies(o) ==
    /\ Cardinality(DOMAIN o.attrs) >= 2
    /\ \A a \in DOMAIN o.attrs : o.attrs[a] <= 5
OldCombos(o) ==
    IF o.id \in DOMAIN hist.before THEN hist.before[o.id].attribute_combos ELSE Empty
NewCombos(o) == items[o.id].attribute_combos
ComboRecorded(o) ==
    /\ ComboKey(o.attrs) \in DOMAIN NewCombos(o)
    /\ NewCombos(o)[ComboKey(o.attrs)]
         = Min(o.price, Get(OldCombos(o), ComboKey(o.attrs), o.price))
NoComboRecorded(o) ==
    \A k \in DOMAIN NewCombos(o) :
        k \in DOMAIN OldCombos(o) /\ NewCombos(o)[k] = OldCombos(o)[k]

\* C4 as stated: a fold records a combo entry, keyed by the sorted names joined
\* by one space and valued min(existing or +infinity, price), if and only if
\* the observation has at least 2 modifiers, all of tier <= 5.
C4_ComboGating ==
    JustFolded =>
        IF Qualifies(LastObs) THEN ComboRecorded(LastObs) ELSE NoComboRecorded(LastObs)

\* C4 as amended: the entry is recorded if and only if, besides, the identity
\* is one update_kuudra_piece answers True for.
C4_ComboGatingKuudra ==
    JustFolded =>
        IF Qualifies(LastObs) /\ update_kuudra_piece(LastObs.id)
        THEN ComboRecorded(LastObs)
        ELSE NoComboRecorded(LastObs)

C4_Witness ==
    /\ JustFolded
    /\ LastObs.attrs = [a \in {"A", "B"} |-> IF a = "A" THEN 2 ELSE 3]
    /\ "A B" \in DOMAIN NewCombos(LastObs)
    /\ NewCombos(LastObs)["A B"] = LastObs.price
    /\ \E o \in {folded[i] : i \in 1..Len(folded)} :
            /\ o.attrs = [a \in {"A", "B"} |-> IF a = "A" THEN 6 ELSE 2]
            /\ o.id = LastObs.id
            /\ o.price < LastObs.price

Older(timestamp) == now - timestamp > 604800

ModifierDecayed(k, a) ==
    IF Older(hist.before[k].attributes[a].timestamp)
    THEN k \notin DOMAIN items \/ a \notin DOMAIN items[k].attributes
    ELSE /\ k \in DOMAIN items
         /\ a \in DOMAIN items[k].attributes
         /\ items[k].attributes[a].lbin = hist.before[k].attributes[a].lbin + 1000

\* C5 as stated: for every ItemRecord with lbin <= 100,000,000 the decay pass
\* removes each ModifierRecord older than 604,800 s and keeps every other one
\* with its price raised by exactly 1,000.
C5_ModifierDecay ==
    JustParsed =>
        \A k \in DOMAIN hist.before :
            hist.before[k].lbin <= 100000000 =>
                \A a \in DOMAIN hist.before[k].attributes : ModifierDecayed(k, a)

\* C5 as amended: the same, for the ItemRecords the pass does not itself
\* delete; a deleted ItemRecord takes all its ModifierRecords with it.
C5_ModifierDecayOfKept ==
    JustParsed =>
        \A k \in DOMAIN hist.before :
            hist.before[k].lbin <= 100000000 =>
                IF Older(hist.before[k].timestamp)
                THEN k \notin DOMAIN items
                ELSE \A a \in DOMAIN hist.before[k].attributes : ModifierDecayed(k, a)

C5_Witness ==
    /\ JustParsed
    /\ \E k \in DOMAIN hist.before :
        /\ hist.before[k].lbin <= 100000000
        /\ ~Older(hist.before[k].timestamp)
        /\ \E a \in DOMAIN hist.before[k].attributes :
            /\ Older(hist.before[k].attributes[a].timestamp)
            /\ a \notin DOMAIN items[k].attributes

\* C6: the decay pass keeps every ItemRecord with lbin > 100,000,000 in the
\* set, its lbin unchanged, however old it is.
C6_CeilingExempt ==
    JustParsed =>
        \A k \in DOMAIN hist.before :
            hist.before[k].lbin > 100000000 =>
                k \in DOMAIN items /\ items[k].lbin = hist.before[k].lbin

C6_Witness ==
    /\ JustParsed
    /\ \E k \in DOMAIN hist.before :
        /\ hist.before[k].lbin > 100000000
        /\ Older(hist.before[k].timestamp)
        /\ items[k] = hist.before[k]

JustMerged == pc = "save_items" /\ hist.op = "merge_current"

C8_NoPartialRead ==
    \A p \in Procs : runs[p].got \in {"none", "absent", "whole"}

AllDone == \A p \in Procs : runs[p].pc = "done"

Other(p) == CHOOSE q \in Procs : q # p

SerialResults ==
    { RunCycle(RunCycle(base, runs[p].seen[1], now), runs[Other(p)].seen[1], now) :
        p \in Procs }

\* C9: two concurrent runs leave the file as one after the other would, in
\* one of the two orders.
C9_RunsSerialize ==
    AllDone => store.text = "whole" /\ store.data \in SerialResults

\* C10: after an auction whose descriptor cannot be read, the pass goes on
\* with the next auction of the batch.
C10_MalformedSkipped ==
    hist.op = "malformed" => pc = "fold"

\* C11: a run whose fetch of the sold auctions fails writes nothing: the
\* persisted record set stays as the last run that completed left it.
C11_FailedFetchWritesNothing ==
    [][hist.op = "fetch_failed" => disk' = disk]_vars

OutOfContract(o) ==
    \/ o.price < 0
    \/ \E a \in DOMAIN o.attrs : o.attrs[a] <= 0

Unreadable == {"empty", "part", "mixed"}

C13_OutOfContractRejected ==
    JustFolded /\ OutOfContract(LastObs) => items = hist.before

\* C14: a combo entry an identity holds is still held after any further fold
\* of that identity, at a price no higher than before.
C14_CombosPersist ==
    JustFolded =>
        \A k \in DOMAIN OldCombos(LastObs) :
            /\ k \in DOMAIN NewCombos(LastObs)
            /\ NewCombos(LastObs)[k] <= OldCombos(LastObs)[k]

\* C15: the decay pass treats the ModifierRecords of an ItemRecord with
\* lbin > 100,000,000 like any other: removed when older than 604,800 s,
\* raised by 1,000 otherwise.
C15_ModifierDecayAboveCeiling ==
    JustParsed =>
        \A k \in DOMAIN hist.before :
            hist.before[k].lbin > 100000000 =>
                \A a \in DOMAIN hist.before[k].attributes : ModifierDecayed(k, a)

\* C16: for every ItemRecord with lbin <= 100,000,000 the decay pass does
\* exactly one of: delete the record when it is more than 604,800 s old; else
\* raise lbin by exactly 1,000 when lbin is not 0; else leave lbin as it is.
C16_ItemDecay ==
    JustParsed =>
        \A k \in DOMAIN hist.before :
            hist.before[k].lbin <= 100000000 =>
                IF now - hist.before[k].timestamp > 604800
                THEN k \notin DOMAIN items
                ELSE /\ k \in DOMAIN items
                     /\ items[k].lbin = IF hist.before[k].lbin # 0
                                        THEN hist.before[k].lbin + 1000
                                        ELSE hist.before[k].lbin

C16_Witness ==
    /\ JustParsed
    /\ \E k \in DOMAIN hist.before :
        /\ hist.before[k].lbin = 0
        /\ now - hist.before[k].timestamp = 604800
        /\ k \in DOMAIN items
        /\ items[k].lbin = 0
    /\ \E k \in DOMAIN hist.before :
        /\ hist.before[k].lbin <= 100000000
        /\ now - hist.before[k].timestamp = 604800 + 1
        /\ k \notin DOMAIN items

EndOfCycle == pc = "save_items" /\ hist.op = "fold_end"

FoldedOf(id) == {folded[i] : i \in {j \in 1..Len(folded) : folded[j].id = id}}

ModifierCandidates(id, a) ==
    {Candidate(o, a) : o \in {q \in FoldedOf(id) : a \in DOMAIN q.attrs}}

\* the data/sold/auction the run began from still holds the record at save time
Reconfirmed(id) ==
    /\ disk.data[id].lbin \in BatchPrices(id)
    /\ \A q \in BatchPrices(id) : q >= disk.data[id].lbin

ModifierReconfirmed(id, a) ==
    /\ disk.data[id].attributes[a].lbin \in ModifierCandidates(id, a)
    /\ \A c \in ModifierCandidates(id, a) : c >= disk.data[id].attributes[a].lbin

Unobserved(id) ==
    /\ BatchPrices(id) = {}
    /\ now - disk.data[id].timestamp <= 604800
    /\ disk.data[id].lbin # 0
    /\ disk.data[id].lbin <= 100000000

\* C17: the decay pass runs on the record set as loaded, before the first
\* fold, and the first fold acts on its result; at the end of a run an
\* identity (a modifier) observed again at its persisted price, and at none
\* lower, holds that price, and a fresh, non-zero identity below the ceiling
\* that was not observed holds its persisted lbin plus exactly 1,000.
C17_DecayBeforeFold ==
    /\ JustParsed => hist.before = disk.data /\ folded = <<>>
    /\ JustFolded /\ Len(folded) = 1 => hist.before = pre
    /\ EndOfCycle =>
        \A id \in DOMAIN disk.data :
            /\ Reconfirmed(id) => items[id].lbin = disk.data[id].lbin
            /\ \A a \in DOMAIN disk.data[id].attributes :
                ModifierReconfirmed(id, a) =>
                    items[id].attributes[a].lbin = disk.data[id].attributes[a].lbin
            /\ Unobserved(id) =>
                id \in DOMAIN items /\ items[id].lbin = disk.data[id].lbin + 1000

C17_Witness ==
    /\ EndOfCycle
    /\ \E id \in DOMAIN disk.data \cap DOMAIN pre :
        /\ Reconfirmed(id)
        /\ pre[id].lbin = disk.data[id].lbin + 1000
        /\ items[id].lbin = disk.data[id].lbin
        /\ \E a \in DOMAIN disk.data[id].attributes \cap DOMAIN pre[id].attributes :
            /\ ModifierReconfirmed(id, a)
            /\ pre[id].attributes[a].lbin = disk.data[id].attributes[a].lbin + 1000
    /\ \E id \in DOMAIN disk.data :
        /\ Unobserved(id)
        /\ items[id].lbin = disk.data[id].lbin + 1000

MergedFrom(data) ==
    /\ DOMAIN items = DOMAIN hist.before \cup DOMAIN data
    /\ \A k \in DOMAIN data \ DOMAIN hist.before :
        /\ items[k].lbin = data[k].lbin
        /\ items[k].timestamp = now
        /\ DOMAIN items[k].attributes = DOMAIN data[k].attributes
        /\ \A a \in DOMAIN data[k].attributes :
            items[k].attributes[a]
              = [form |-> "wrapped", lbin |-> data[k].attributes[a].lbin, timestamp |-> now]

\* C18: merge_current adds, for every identity of data/active/auction the
\* record set lacks, a record with that lbin, the timestamp now, and each
\* modifier price wrapped as {lbin: the bare price, timestamp: now}; the record
\* set's identities are then those of both.
C18_MergeAddsAbsent ==
    JustMerged => \E data \in Supplementals : MergedFrom(data)

C18_Witness ==
    /\ JustMerged
    /\ DOMAIN hist.before = {"HYPERION"}
    /\ DOMAIN items = {"HYPERION", "AURORA_CHESTPLATE"}
    /\ items["AURORA_CHESTPLATE"].lbin = 104000
    /\ items["AURORA_CHESTPLATE"].attributes["A"]
         = [form |-> "wrapped", lbin |-> 52000, timestamp |-> now]

Holds(p) == store.ex = p \/ p \in store.sh \/ cache = p

Locked == {"gd_load", "gd_unlock", "sd_dump", "sd_unlock", "cd_dump", "cd_unlock"}

\* C19: a run holds a lock on data/auction.json or on the cache file only
\* between the flock that takes it and the flock(LOCK_UN) of the `finally`:
\* once get_data, save_data or cache_data has returned or raised, the lock is
\* free for the other run.
C19_LockReleased ==
    \A p \in Procs : Holds(p) => runs[p].pc \in Locked

C19_Witness ==
    \E p \in Procs :
        /\ runs[p].pc = "raised"
        /\ store.text = "part"
        /\ store.ex = Other(p)
        /\ runs[Other(p)].got \in Unreadable

Returned == ga.pc # "get_auction"

PagesInOrder ==
    /\ ga.depth = Len(ga.fetched)
    /\ \A i \in 1..Len(ga.fetched) : ga.fetched[i] = i - 1
    /\ Len(ga.totals) = Len(ga.fetched) - (IF ga.failed THEN 1 ELSE 0)
    /\ ga.failed => Returned
    /\ Returned /\ ~ga.failed =>
        /\ Len(ga.fetched) >= ga.totals[Len(ga.totals)]
        /\ (\A i \in 1..Len(ga.totals) : ga.totals[i] = ga.totals[1])
              => Len(ga.fetched) = ga.totals[1]

\* C20: get_auction(0) returns in the end; the pages it asks for are 0, 1, 2,
\* ... in this order, each once, one call deep per page; it stops at the
\* first response that is not a 200, and otherwise at the page whose response
\* reports no page after it, which is page totalPages - 1 when every response
\* reports the same totalPages.
C20_PaginationTerminates ==
    /\ []PagesInOrder
    /\ <>[]Returned

C20_Witness ==
    /\ ga.pc = "done"
    /\ ~ga.failed
    /\ ga.totals = [i \in 1..MaxPages |-> MaxPages]
    /\ ga.fetched = [i \in 1..MaxPages |-> i - 1]
    /\ ga.depth = MaxPages

AllWrapped(its) ==
    \A k \in DOMAIN its :
        \A a \in DOMAIN its[k].attributes : its[k].attributes[a].form = "wrapped"

\* C21: run after run, every modifier value of the record set parse_items
\* and the fold read is a {lbin, timestamp} dict, never a bare number: the
\* pickle is written before clean_items flattens the record set, so what a
\* later run loads is never the flattened form, and neither pass raises on
\* one.
C21_StateStaysWrapped ==
    /\ AllWrapped(disk.data)
    /\ pc \in {"parse_items", "get_sold_auction", "fold", "save_items"}
          => AllWrapped(items)
    /\ hist.op \notin {"parse_raised", "fold_raised"}

C21_Witness ==
    /\ cycle = 2
    /\ JustFolded
    /\ disk.data # Empty
    /\ \E a \in DOMAIN LastObs.attrs :
        /\ HadModifier(LastObs, a)
        /\ LastObs.id \in DOMAIN disk.data
        /\ a \in DOMAIN disk.data[LastObs.id].attributes
        /\ OldModifier(LastObs, a).form = "wrapped"

====
